---- MODULE Spec2Model ----
(***************************************************************************)
(* Model of the data containers of data_prototype/containers.py:           *)
(* ArrayContainer, FuncContainer, HistContainer, SeriesContainer and       *)
(* DataFrameContainer, with the LFU caches of the two computing           *)
(* containers and CPython's hash() of the tuples they use as cache keys.   *)
(*                                                                         *)
(* Numbers.  Query bounds are integers (the floats -2.0, -1.0, 0.0, ...).  *)
(* A sampled array holds exact fractions over one common denominator:     *)
(* an element <<n, d>> is the number n / d.                                *)
(*                                                                         *)
(* Specifications.  SpecArray: the calls of the three static containers.   *)
(* SpecFunc: the queries of FuncContainer.  SpecHist: the queries of       *)
(* HistContainer.  Each leaves the other containers as constructed.        *)
(***************************************************************************)
EXTENDS Integers, Sequences, FiniteSets, TLC

VARIABLES
    a_data,        \* ArrayContainer._data: name -> array
    a_cache_key,   \* ArrayContainer._cache_key
    a_desc,        \* ArrayContainer._desc: name -> Desc
    uuid_next,     \* the next value str(uuid.uuid4()) hands out
    s_data,        \* SeriesContainer._data: [index, values]
    df_data,       \* DataFrameContainer._data: [index, cols]
    df_index_name, \* DataFrameContainer._index_name
    df_col_name_dict, \* DataFrameContainer._col_name_dict
    f_cache,       \* FuncContainer._cache: [data, counter]
    h_cache,       \* HistContainer._cache: [data, counter]
    ret,           \* what the last call returned or raised
    pend,          \* history: the last ArrayContainer.update call
    returned,      \* history: the cache keys ArrayContainer.query returned
    qkey,          \* history: key of the last array query since an update
    probe          \* history: one earlier query of a caching container

vars == <<a_data, a_cache_key, a_desc, uuid_next, s_data, df_data,
          df_index_name, df_col_name_dict, f_cache, h_cache, ret, pend,
          returned, qkey, probe>>

arrayVars == <<a_data, a_cache_key, a_desc, uuid_next, pend, returned, qkey>>
tableVars == <<s_data, df_data, df_index_name, df_col_name_dict>>

(***************************************************************************)
(* Bounds of the model.                                                    *)
(***************************************************************************)
MaxUuid == 2      \* successful ArrayContainer.update calls explored
num_bins == 3     \* HistContainer(raw_data, num_bins)
MaxUses == 2      \* uses of one cache entry explored (a hit beyond it is not taken)
CacheBound == 2   \* capacity the caches are explored with: LFUCache(64) scaled down

None == "None"
NoKey == 0 - 1

Max(a, b) == IF a >= b THEN a ELSE b
Min(a, b) == IF a <= b THEN a ELSE b

(***************************************************************************)
(* Arrays and descriptors.                                                 *)
(***************************************************************************)
NdArray(dtype, vals) == [dtype |-> dtype, vals |-> vals]

Whole(seq) == [i \in DOMAIN seq |-> <<seq[i], 1>>]

Shape(arr) == <<Len(arr.vals)>>

Desc(shape, dtype_str) == [shape |-> shape, dtype_str |-> dtype_str, units |-> "naive"]

NoValues == [k \in {} |-> NdArray("float64", <<>>)]

\* dict(a, **b): the entries of b override those of a
DictUpdate(a, b) ==
    [k \in DOMAIN a \cup DOMAIN b |-> IF k \in DOMAIN b THEN b[k] ELSE a[k]]

UserArrays ==
    { NdArray("int64", Whole(<<0, 1>>)),
      NdArray("float64", Whole(<<1, 4, 2>>)) }

Names == {"x", "y"}
AllNames == Names \cup {"z"}

\* the keyword arguments an update call may pass
UpdateArgs == UNION { [S -> UserArrays] : S \in SUBSET AllNames }

\* The record of a call: the container and operation, the arguments, the
\* exception raised (None when it returned), the values and key returned,
\* and what the call did to the cache.
NoCall == [c |-> "none", op |-> "none", args |-> <<>>, err |-> None,
           values |-> NoValues, key |-> NoKey, hit |-> FALSE,
           evaluated |-> FALSE, stored |-> FALSE, size |-> 0,
           victim_uses |-> 0, min_uses |-> 0, max_uses |-> 0,
           again |-> FALSE, held |-> FALSE, prevq |-> NoKey]

NoPend == [kind |-> "none", m |-> NoValues, data |-> NoValues, key |-> NoKey,
           returned |-> {}]

(***************************************************************************)
(* ArrayContainer                                                          *)
(***************************************************************************)
ArrayDescOf(data) == [k \in DOMAIN data |-> Desc(Shape(data[k]), data[k].dtype)]

\* ArrayContainer(**data), for each data of Data
ArrayInit(Data) ==
    /\ a_data \in Data
    /\ a_cache_key = 0
    /\ uuid_next = 1
    /\ a_desc = ArrayDescOf(a_data)
    /\ pend = NoPend
    /\ returned = {}
    /\ qkey = NoKey

ArrayDescribe == a_desc

ArrayQueryArgs ==
    { <<<<x0, 1, 0, 1>>, <<1, 1>>, None, None>> : x0 \in {-1, 0} }

ArrayQuery(args) ==
    /\ ret' = [NoCall EXCEPT !.c = "array", !.op = "query", !.args = args,
                             !.values = a_data, !.key = a_cache_key,
                             !.prevq = qkey]
    /\ returned' = returned \cup {a_cache_key}
    /\ qkey' = a_cache_key
    /\ UNCHANGED <<a_data, a_cache_key, a_desc, uuid_next, pend>>

\* mutant: any() in place of all()
UpdateAcceptsAny(data, m) == \E k \in DOMAIN m : k \in DOMAIN data

UpdateAccepts(data, m) == \A k \in DOMAIN m : k \in DOMAIN data

\* mutant: update keeps the key it had
StaleKey == a_cache_key

\* self._cache_key = str(uuid.uuid4())
UpdatedKey == uuid_next

ArrayUpdate(m) ==
    IF ~UpdateAccepts(a_data, m)
    THEN /\ ret' = [NoCall EXCEPT !.c = "array", !.op = "update",
                                  !.err = "Exception"]
         /\ pend' = [kind |-> "failed", m |-> m, data |-> a_data,
                     key |-> a_cache_key, returned |-> returned]
         /\ UNCHANGED <<a_data, a_cache_key, a_desc, uuid_next, returned, qkey>>
    ELSE /\ uuid_next <= MaxUuid
         /\ a_data' = DictUpdate(a_data, m)
         /\ a_cache_key' = UpdatedKey
         /\ uuid_next' = uuid_next + 1
         /\ ret' = [NoCall EXCEPT !.c = "array", !.op = "update"]
         /\ pend' = [kind |-> "updated", m |-> m, data |-> a_data,
                     key |-> a_cache_key, returned |-> returned]
         /\ qkey' = NoKey
         /\ UNCHANGED <<a_desc, returned>>

(***************************************************************************)
(* SeriesContainer and DataFrameContainer                                  *)
(***************************************************************************)
index_name == "idx"
col_name == "val"

SeriesInit ==
    s_data = [index |-> NdArray("int64", Whole(<<0, 1>>)),
              values |-> NdArray("float64", Whole(<<1, 4>>))]

SeriesDescribe ==
    DictUpdate((index_name :> Desc(<<Len(s_data.values.vals)>>, s_data.index.dtype)),
               (col_name :> Desc(<<Len(s_data.values.vals)>>, s_data.values.dtype)))

SeriesHashKey == 0

SeriesQuery(args) ==
    /\ ret' = [NoCall EXCEPT !.c = "series", !.op = "query", !.args = args,
                             !.values = DictUpdate((index_name :> s_data.index),
                                                   (col_name :> s_data.values)),
                             !.key = SeriesHashKey]
    /\ UNCHANGED <<arrayVars, tableVars, f_cache, h_cache, probe>>

\* DataFrameContainer(df, col_names=..., index_name=i), for each i of IndexNames
DataFrameInit(IndexNames) ==
    /\ df_data = [index |-> NdArray("int64", Whole(<<0, 1>>)),
                  cols |-> ("a" :> NdArray("int64", Whole(<<1, 4>>))) @@
                           ("b" :> NdArray("float64", Whole(<<0, 1>>)))]
    /\ df_index_name \in IndexNames
    /\ df_col_name_dict = ("a" :> "x") @@ ("b" :> "y")

DataFrameDescribe ==
    DictUpdate(IF df_index_name # None
               THEN (df_index_name :> Desc(<<Len(df_data.index.vals)>>, df_data.index.dtype))
               ELSE [k \in {} |-> Desc(<<>>, "float64")],
               [out \in { df_col_name_dict[c] : c \in DOMAIN df_col_name_dict } |->
                   LET c == CHOOSE c \in DOMAIN df_col_name_dict : df_col_name_dict[c] = out
                   IN  Desc(<<Len(df_data.index.vals)>>, df_data.cols[c].dtype)])

DataFrameHashKey == 0

DataFrameQuery(args) ==
    /\ ret' = [NoCall EXCEPT !.c = "frame", !.op = "query", !.args = args,
                  !.values =
                     DictUpdate(IF df_index_name # None
                                THEN (df_index_name :> df_data.index)
                                ELSE NoValues,
                                [out \in { df_col_name_dict[c] : c \in DOMAIN df_col_name_dict } |->
                                   LET c == CHOOSE c \in DOMAIN df_col_name_dict :
                                                df_col_name_dict[c] = out
                                   IN  df_data.cols[c]]),
                  !.key = DataFrameHashKey]
    /\ UNCHANGED <<arrayVars, tableVars, f_cache, h_cache, probe>>

(***************************************************************************)
(* hash(): CPython hashes an int, and a float of integral value, to the    *)
(* value itself, except that -1 hashes to -2.  The hash of a tuple is a    *)
(* function of the hashes of its items alone, kept here as their tuple.    *)
(* None and the strings hash apart.                                        *)
(***************************************************************************)
HashNum(v) == IF v = -1 THEN -2 ELSE v

HashStr(s) == s

HashTuple(t) == [i \in DOMAIN t |-> HashNum(t[i])]

(***************************************************************************)
(* cachetools.LFUCache: the entries and, for each, its number of uses      *)
(* (one for the store, one more for every read).  A store into a full      *)
(* cache first pops an entry with the fewest uses; which of several such   *)
(* entries is left to the library.                                         *)
(***************************************************************************)
EmptyCache == [data |-> <<>>, counter |-> <<>>]

maxsize == CacheBound

LfuContains(cache, key) == key \in DOMAIN cache.data

LfuGetItem(cache, key) ==
    [cache EXCEPT !.counter = [k \in DOMAIN cache.counter |->
                                  IF k = key THEN cache.counter[k] + 1
                                  ELSE cache.counter[k]]]

LfuFull(cache) == Cardinality(DOMAIN cache.data) + 1 > maxsize

MinUses(cache) ==
    CHOOSE n \in { cache.counter[k] : k \in DOMAIN cache.counter } :
        \A k \in DOMAIN cache.counter : n <= cache.counter[k]

MaxUsesOf(cache) ==
    CHOOSE n \in { cache.counter[k] : k \in DOMAIN cache.counter } :
        \A k \in DOMAIN cache.counter : n >= cache.counter[k]

\* mutant: popitem removes any entry
LfuVictimsAny(cache) == DOMAIN cache.data

\* the keys popitem may remove
LfuVictims(cache) ==
    { k \in DOMAIN cache.data : cache.counter[k] = MinUses(cache) }

\* mutant: a full cache is emptied
LfuClear(cache, victim) == [data |-> <<>>, counter |-> <<>>]

LfuPop(cache, victim) ==
    [data |-> [k \in DOMAIN cache.data \ {victim} |-> cache.data[k]],
     counter |-> [k \in DOMAIN cache.counter \ {victim} |-> cache.counter[k]]]

LfuSetItem(cache, key, value) ==
    [data |-> [k \in DOMAIN cache.data \cup {key} |->
                  IF k = key THEN value ELSE cache.data[k]],
     counter |-> [k \in DOMAIN cache.counter \cup {key} |->
                  IF k = key
                  THEN (IF k \in DOMAIN cache.counter THEN cache.counter[k] ELSE 0) + 1
                  ELSE cache.counter[k]]]

NoVictim == <<"no victim">>

\* the victims a store of a new key may pop: none while there is room
StoreVictims(cache) == IF LfuFull(cache) THEN LfuVictims(cache) ELSE {NoVictim}

LfuStore(cache, key, value, victim) ==
    LfuSetItem(IF victim = NoVictim THEN cache ELSE LfuPop(cache, victim), key, value)

(***************************************************************************)
(* np.linspace(start, stop, num): num evenly spaced samples, both ends     *)
(* included, over the common denominator num - 1.                          *)
(***************************************************************************)
Linspace(start, stop, num) ==
    IF num = 1
    THEN <<  <<start, 1>>  >>
    ELSE [i \in 1..num |-> <<start * (num - 1) + (i - 1) * (stop - start), num - 1>>]

(***************************************************************************)
(* History: one earlier query of a caching container, taken at any query.  *)
(* live: the entry stored under its key has not been popped since.         *)
(***************************************************************************)
NoProbe == [set |-> FALSE, c |-> "none", args |-> <<>>, key |-> NoKey,
            values |-> NoValues, live |-> FALSE]

ProbeAfter(c, rec, args, key, values, victim, stored) ==
    IF probe.set
    THEN [probe EXCEPT !.live = probe.live /\ ~(probe.c = c /\ probe.key = victim)]
    ELSE IF rec
         THEN [set |-> TRUE, c |-> c, args |-> args, key |-> key,
               values |-> values, live |-> stored]
         ELSE probe

(***************************************************************************)
(* FuncContainer, wrapping one function of each kind.                      *)
(***************************************************************************)
XFunc(x_data) == NdArray("float64", x_data)
YFunc(y_data) == NdArray("float64", y_data)
XYFunc(x_data, y_data) == NdArray("float64", x_data \o y_data)

FuncDescribe ==
    ("x" :> Desc(<<"N">>, "float64")) @@ ("y" :> Desc(<<"M">>, "float64")) @@
    ("xy" :> Desc(<<"N+M">>, "float64"))

FuncXBounds == { <<-2, 0>>, <<-1, 0>>, <<0, 0>>, <<0, -1>> }

FuncQueryArgs ==
    { <<<<b[1], b[2], 0, 1>>, <<w, 1>>, None, None>> : b \in FuncXBounds, w \in {1, 2} }
    \cup { <<<<-2, 0, 0, 1>>, <<1, 1>>, "log", None>> }

FuncHashKey(args) ==
    << HashTuple(args[1]), HashTuple(args[2]), HashStr(args[3]), HashStr(args[4]) >>

\* what query computes on a miss
FuncEval(args) ==
    LET x_data == Linspace(args[1][1], args[1][2], args[2][1] * 2)
        y_data == Linspace(args[1][3], args[1][4], args[2][2] * 2)
    IN  ("x" :> XFunc(x_data)) @@ ("y" :> YFunc(y_data)) @@
        ("xy" :> XYFunc(x_data, y_data))

FuncQuery(args) ==
    LET hash_key == FuncHashKey(args)
        again == probe.set /\ probe.c = "func" /\ probe.args = args
        held == probe.set /\ probe.c = "func" /\ probe.live
    IN  IF LfuContains(f_cache, hash_key)
        THEN /\ f_cache.counter[hash_key] < MaxUses
             /\ f_cache' = LfuGetItem(f_cache, hash_key)
             /\ ret' = [NoCall EXCEPT !.c = "func", !.op = "query", !.args = args,
                           !.values = f_cache.data[hash_key], !.key = hash_key,
                           !.hit = TRUE, !.again = again, !.held = held,
                           !.size = Cardinality(DOMAIN f_cache.data)]
             /\ \E rec \in BOOLEAN :
                  probe' = ProbeAfter("func", rec, args, hash_key,
                                      f_cache.data[hash_key], NoVictim, TRUE)
        ELSE \E victim \in StoreVictims(f_cache) :
             /\ f_cache' = LfuStore(f_cache, hash_key, FuncEval(args), victim)
             /\ ret' = [NoCall EXCEPT !.c = "func", !.op = "query", !.args = args,
                           !.values = FuncEval(args), !.key = hash_key,
                           !.evaluated = TRUE, !.stored = TRUE,
                           !.again = again, !.held = held,
                           !.size = Cardinality(DOMAIN f_cache'.data),
                           !.victim_uses = IF victim = NoVictim THEN 0
                                           ELSE f_cache.counter[victim],
                           !.min_uses = IF victim = NoVictim THEN 0
                                        ELSE MinUses(f_cache),
                           !.max_uses = IF victim = NoVictim THEN 0
                                        ELSE MaxUsesOf(f_cache)]
             /\ \E rec \in BOOLEAN :
                  probe' = ProbeAfter("func", rec, args, hash_key,
                                      FuncEval(args), victim, TRUE)

(***************************************************************************)
(* HistContainer(raw_data, num_bins)                                       *)
(***************************************************************************)
raw_data == <<-2, -1, 0, 0, 1>>

SeqMin(seq) == CHOOSE v \in { seq[i] : i \in DOMAIN seq } :
                  \A i \in DOMAIN seq : v <= seq[i]
SeqMax(seq) == CHOOSE v \in { seq[i] : i \in DOMAIN seq } :
                  \A i \in DOMAIN seq : v >= seq[i]

full_range == <<SeqMin(raw_data), SeqMax(raw_data)>>

HistDescribe ==
    ("edges" :> Desc(<<num_bins + 1 + 2>>, "float64")) @@
    ("density" :> Desc(<<num_bins + 2>>, "float64"))

\* np.clip(v, lo, hi)
Clip(v, lo, hi) == Min(Max(v, lo), hi)

Clamped(args) ==
    << Clip(args[1][1], full_range[1], full_range[2]),
       Clip(args[1][2], full_range[1], full_range[2]) >>

\* mutant: the key hashes the bounds as requested, not as clamped
HistHashKeyRaw(args) == HashTuple(<<args[1][1], args[1][2]>>)

HistHashKey(args) == HashTuple(Clamped(args))

\* the denominator the edges of one query share
EdgeDen == IF num_bins = 1 THEN 1 ELSE num_bins - 1

\* np.concatenate(edges_in)
HistEdges(xmin, xmax) ==
    (IF full_range[1] < xmin THEN << <<full_range[1] * EdgeDen, EdgeDen>> >> ELSE <<>>)
    \o Linspace(xmin, xmax, num_bins)
    \o (IF xmax < full_range[2] THEN << <<full_range[2] * EdgeDen, EdgeDen>> >> ELSE <<>>)

\* np.histogram raises ValueError unless the edges increase monotonically
Monotonic(edges) == \A i \in 1..(Len(edges) - 1) : edges[i][1] <= edges[i + 1][1]

\* searchsorted: the samples left of edge j, the last edge inclusive
CountBelow(edges, j) ==
    Cardinality({ i \in DOMAIN raw_data :
                    IF j = Len(edges)
                    THEN raw_data[i] * EdgeDen <= edges[j][1]
                    ELSE raw_data[i] * EdgeDen < edges[j][1] })

\* np.histogram(raw_data, bins=edges, density=True): n / db / n.sum()
Density(edges) ==
    LET n == [i \in 1..(Len(edges) - 1) |->
                 CountBelow(edges, i + 1) - CountBelow(edges, i)]
        total == CountBelow(edges, Len(edges)) - CountBelow(edges, 1)
    IN  [i \in 1..(Len(edges) - 1) |->
            << n[i] * EdgeDen, (edges[i + 1][1] - edges[i][1]) * total >>]

HistEval(args) ==
    LET edges == HistEdges(Clamped(args)[1], Clamped(args)[2])
    IN  ("edges" :> NdArray("float64", edges)) @@
        ("density" :> NdArray("float64", Density(edges)))

HistXBounds ==
    { <<-3, 2>>, <<-2, 1>>, <<-1, 0>>, <<-3, 0>>, <<0, 1>>, <<0, 0>>, <<0, -1>> }

HistQueryArgs ==
    { <<<<b[1], b[2], 0, 1>>, <<w, 1>>, None, None>> : b \in HistXBounds, w \in {1, 2} }
    \cup { <<<<-3, 2, 0, 2>>, <<1, 2>>, "log", None>> }

HistQuery(args) ==
    LET hash_key == HistHashKey(args)
        again == probe.set /\ probe.c = "hist" /\ Clamped(probe.args) = Clamped(args)
        held == probe.set /\ probe.c = "hist" /\ probe.live
        edges == HistEdges(Clamped(args)[1], Clamped(args)[2])
    IN  IF LfuContains(h_cache, hash_key)
        THEN /\ h_cache.counter[hash_key] < MaxUses
             /\ h_cache' = LfuGetItem(h_cache, hash_key)
             /\ ret' = [NoCall EXCEPT !.c = "hist", !.op = "query", !.args = args,
                           !.values = h_cache.data[hash_key], !.key = hash_key,
                           !.hit = TRUE, !.again = again, !.held = held,
                           !.size = Cardinality(DOMAIN h_cache.data)]
             /\ \E rec \in BOOLEAN :
                  probe' = ProbeAfter("hist", rec, args, hash_key,
                                      h_cache.data[hash_key], NoVictim, TRUE)
        ELSE IF ~Monotonic(edges)
        THEN /\ ret' = [NoCall EXCEPT !.c = "hist", !.op = "query", !.args = args,
                           !.err = "ValueError", !.evaluated = TRUE,
                           !.again = again, !.held = held,
                           !.size = Cardinality(DOMAIN h_cache.data)]
             /\ \E rec \in BOOLEAN :
                  probe' = ProbeAfter("hist", rec, args, hash_key,
                                      NoValues, NoVictim, FALSE)
             /\ UNCHANGED h_cache
        ELSE \E victim \in StoreVictims(h_cache) :
             /\ h_cache' = LfuStore(h_cache, hash_key, HistEval(args), victim)
             /\ ret' = [NoCall EXCEPT !.c = "hist", !.op = "query", !.args = args,
                           !.values = HistEval(args), !.key = hash_key,
                           !.evaluated = TRUE, !.stored = TRUE,
                           !.again = again, !.held = held,
                           !.size = Cardinality(DOMAIN h_cache'.data),
                           !.victim_uses = IF victim = NoVictim THEN 0
                                           ELSE h_cache.counter[victim],
                           !.min_uses = IF victim = NoVictim THEN 0
                                        ELSE MinUses(h_cache),
                           !.max_uses = IF victim = NoVictim THEN 0
                                        ELSE MaxUsesOf(h_cache)]
             /\ \E rec \in BOOLEAN :
                  probe' = ProbeAfter("hist", rec, args, hash_key,
                                      HistEval(args), victim, TRUE)

OtherInit ==
    /\ SeriesInit
    /\ f_cache = EmptyCache
    /\ h_cache = EmptyCache
    /\ ret = NoCall
    /\ probe = NoProbe

OneArray == { [n \in Names |-> NdArray("int64", Whole(<<0, 1>>))] }

\* the containers as constructed, the static ones over every input
InitArray ==
    ArrayInit([Names -> UserArrays]) /\ DataFrameInit({None, index_name}) /\ OtherInit

\* the containers as constructed, the static ones over one input
Init == ArrayInit(OneArray) /\ DataFrameInit({None}) /\ OtherInit

NextArray ==
    \/ \E args \in ArrayQueryArgs :
          ArrayQuery(args) /\ UNCHANGED <<tableVars, f_cache, h_cache, probe>>
    \/ \E m \in UpdateArgs :
          ArrayUpdate(m) /\ UNCHANGED <<tableVars, f_cache, h_cache, probe>>
    \/ \E args \in ArrayQueryArgs : SeriesQuery(args)
    \/ \E args \in ArrayQueryArgs : DataFrameQuery(args)

SpecArray == InitArray /\ [][NextArray]_vars

NextFunc ==
    \E args \in FuncQueryArgs :
        FuncQuery(args) /\ UNCHANGED <<arrayVars, tableVars, h_cache>>

SpecFunc == Init /\ [][NextFunc]_vars

NextHist ==
    \E args \in HistQueryArgs :
        HistQuery(args) /\ UNCHANGED <<arrayVars, tableVars, f_cache>>

SpecHist == Init /\ [][NextHist]_vars

(***************************************************************************)
(* The claims.                                                             *)
(***************************************************************************)
Describe(c) ==
    CASE c = "array" -> ArrayDescribe
      [] c = "series" -> SeriesDescribe
      [] c = "frame" -> DataFrameDescribe
      [] c = "func" -> FuncDescribe
      [] c = "hist" -> HistDescribe

Returned == ret.op = "query" /\ ret.err = None

\* C1: whatever container a query is made of and whatever calls came before,
\* the names it returns are names of describe() and every returned array has
\* the element type its Desc records.
C1_QueryWithinDescribe ==
    Returned =>
        /\ DOMAIN ret.values \subseteq DOMAIN Describe(ret.c)
        /\ \A k \in DOMAIN ret.values :
              ret.values[k].dtype = Describe(ret.c)[k].dtype_str

\* C2: a FuncContainer query returns what evaluating the wrapped functions
\* on the samples of its own arguments gives, cached or not.
C2_FuncQueryIsUncachedEval ==
    (ret.c = "func" /\ Returned) => ret.values = FuncEval(ret.args)

\* C3: two queries of one container that return the same cache key return
\* the same arrays; for ArrayContainer, an update that changes the arrays
\* also changes the key.
C3_SameKeySameArrays ==
    /\ (Returned /\ ret.c \in {"func", "hist"} /\ probe.set /\ probe.c = ret.c
          /\ probe.values # NoValues /\ ret.key = probe.key)
        => ret.values = probe.values
    /\ (Returned /\ ret.c = "array" /\ pend.kind = "updated" /\ ret.key = pend.key)
        => ret.values = pend.data

UnknownName(data, m) == \E k \in DOMAIN m : k \notin DOMAIN data

C5_ArrayKeyAndValues ==
    /\ (ret.c = "array" /\ Returned /\ ret.prevq # NoKey) => ret.key = ret.prevq
    /\ (ret.c = "array" /\ Returned /\ pend.kind = "updated") =>
          /\ ret.values = DictUpdate(pend.data, pend.m)
          /\ ret.key \notin pend.returned

\* the second query after an update that replaced an array, queries having
\* been made before the update as well
C5_Witness ==
    /\ ret.c = "array" /\ Returned /\ ret.prevq # NoKey
    /\ pend.kind = "updated"
    /\ pend.returned # {}
    /\ \E k \in DOMAIN pend.m : pend.m[k] # pend.data[k]
    /\ \E k \in DOMAIN pend.data : k \notin DOMAIN pend.m

Last(seq) == seq[Len(seq)]

\* C6: for x_min < x_max HistContainer.query returns num_bins + 1 edges,
\* plus one leading edge at the global minimum exactly when the window
\* starts before it, plus one trailing edge at the global maximum exactly
\* when the window ends after it.
C6_EdgeCount ==
    (ret.c = "hist" /\ Returned /\ ret.args[1][1] < ret.args[1][2]) =>
        LET edges == ret.values["edges"].vals
            below == ret.args[1][1] < full_range[1]
            above == ret.args[1][2] > full_range[2]
        IN  /\ Len(edges) = num_bins + 1 + (IF below THEN 1 ELSE 0)
                                         + (IF above THEN 1 ELSE 0)
            /\ below => edges[1] = <<full_range[1] * EdgeDen, EdgeDen>>
            /\ above => Last(edges) = <<full_range[2] * EdgeDen, EdgeDen>>

\* C7: a HistContainer query whose x-range clamps to the pair an earlier
\* query clamped to, that query's entry still being in the cache, computes
\* no histogram and returns that entry and the same key, whatever its pixel
\* size, y-range, scale hints and unclamped x-range.
C7_SameClampHits ==
    (ret.c = "hist" /\ ret.op = "query" /\ ret.again /\ ret.held) =>
        /\ ret.hit
        /\ ~ret.evaluated
        /\ ret.err = None
        /\ ret.key = probe.key
        /\ ret.values = probe.values

\* a hit by a query that differs from the earlier one in pixel size and in
\* its unclamped bounds
C7_Witness ==
    /\ ret.c = "hist" /\ ret.op = "query" /\ ret.again /\ ret.held /\ ret.hit
    /\ ret.args[2] # probe.args[2]
    /\ ret.args[1] # probe.args[1]

\* C8: FuncContainer's cache never holds more entries than its capacity,
\* and the entry a store into the full cache evicts has the fewest uses of
\* the entries held.
C8_BoundedLfu ==
    /\ Cardinality(DOMAIN f_cache.data) <= maxsize
    /\ (ret.c = "func" /\ ret.victim_uses > 0) => ret.victim_uses = ret.min_uses

\* an eviction from the full cache whose entries differ in uses
C8_Witness ==
    /\ ret.c = "func" /\ ret.victim_uses > 0
    /\ ret.size = maxsize
    /\ ret.min_uses < ret.max_uses

\* C9 as stated: a FuncContainer query with the arguments of an earlier
\* query always hits the cache and evaluates nothing.
C9_RepeatAlwaysHits ==
    (ret.c = "func" /\ ret.op = "query" /\ ret.again) =>
        ret.hit /\ ~ret.evaluated

\* C9 as amended: a FuncContainer query with the arguments of an earlier
\* query hits the cache, evaluates nothing and returns what the earlier
\* query returned, provided the entry under its key was not evicted between
\* the two.
C9_RepeatHitsWhileHeld ==
    (ret.c = "func" /\ ret.op = "query" /\ ret.again /\ ret.held) =>
        /\ ret.hit
        /\ ~ret.evaluated
        /\ ret.key = probe.key
        /\ ret.values = probe.values

\* a repeated query that hits after another key was stored in between
C9_Witness ==
    /\ ret.c = "func" /\ ret.op = "query" /\ ret.again /\ ret.held /\ ret.hit
    /\ \E k \in DOMAIN f_cache.data : k # ret.key

\* C10: a HistContainer or FuncContainer query with x_min >= x_max raises
\* QueryError, returns no values and stores nothing in the cache.
C10_MalformedBoundsRejected ==
    (ret.c \in {"func", "hist"} /\ ret.op = "query"
       /\ ret.args[1][1] >= ret.args[1][2]) =>
        /\ ret.err = "QueryError"
        /\ ret.values = NoValues
        /\ ~ret.stored

\* C11: for x_min < x_max the arrays HistContainer.query returns have the
\* lengths describe() declares, num_bins + 3 edges and num_bins + 2
\* densities, one density fewer than edges.
C11_LengthsMatchDescribe ==
    (ret.c = "hist" /\ Returned /\ ret.args[1][1] < ret.args[1][2]) =>
        /\ <<Len(ret.values["edges"].vals)>> = HistDescribe["edges"].shape
        /\ <<Len(ret.values["density"].vals)>> = HistDescribe["density"].shape
        /\ Len(ret.values["density"].vals) = Len(ret.values["edges"].vals) - 1

\* the part of C11 the code keeps: one density for every pair of
\* neighbouring edges
C11_DensityOneFewer ==
    (ret.c = "hist" /\ Returned) =>
        Len(ret.values["density"].vals) = Len(ret.values["edges"].vals) - 1

====
